---- MODULE Spec2Model ----
(***************************************************************************)
(* Model of server.js: an Express application with one MySQL connection.   *)
(* Every request occupies a slot; a handler runs from the arrival of the   *)
(* request up to its first awaited SQL statement, the statement executes   *)
(* atomically at the database, and the handler's continuation sends the    *)
(* response.  Requests in different slots interleave at those awaits.      *)
(***************************************************************************)
EXTENDS Naturals, Sequences, FiniteSets, TLC

VARIABLES
  users,          \* table users: sequence of rows in insertion order
  institutions,   \* table institutions: sequence of rows
  instNextId,     \* AUTO_INCREMENT counter of institutions
  faculties,      \* table faculties
  courses,        \* table courses
  applications,   \* table applications
  emailUnique,    \* whether the (unshown) schema declares users.email UNIQUE
  asyncForward,   \* whether the framework forwards a rejected handler promise
  req,            \* slot -> the request handled there
  nArrived,       \* number of requests received so far
  deletedBy       \* history: institution id -> rid of the DELETE that removed it

vars == <<users, institutions, instNextId, faculties, courses, applications,
          emailUnique, asyncForward, req, nArrived, deletedBy>>

tables == <<users, institutions, instNextId, faculties, courses, applications>>

-----------------------------------------------------------------------------
(* Bounds *)

MaxRequests == 3
NumSlots == 2
MaxGrades == 2

Slots == 1..NumSlots

-----------------------------------------------------------------------------
(* JavaScript values carried by a request body *)

Undefined == [type |-> "undefined", val |-> ""]
Str(s) == [type |-> "string", val |-> s]
Num(s) == [type |-> "number", val |-> s]
Arr(s) == [type |-> "array", val |-> s]

\* !v
Falsy(v) ==
  \/ v.type = "undefined"
  \/ v.type = "string" /\ v.val = ""
  \/ v.type = "number" /\ v.val = "0"

\* v || ''
OrEmpty(v) == IF Falsy(v) THEN Str("") ELSE v

\* the integer MySQL compares an id column with, for a value bound to ?
ToInt(v) ==
  CASE v.val = "1" -> 1
    [] v.val = "2" -> 2
    [] v.val = "3" -> 3
    [] v.val = "4" -> 4
    [] OTHER -> 0

Range(f) == {f[i] : i \in DOMAIN f}

IndexOf(seq, x) == CHOOSE i \in DOMAIN seq : seq[i] = x

RECURSIVE SeqFilter(_, _)
SeqFilter(seq, keep) ==
  IF seq = <<>> THEN <<>>
  ELSE IF Head(seq) \in keep THEN <<Head(seq)>> \o SeqFilter(Tail(seq), keep)
  ELSE SeqFilter(Tail(seq), keep)

-----------------------------------------------------------------------------
(* multer: the upload filter *)

\* MIME types, as sequences of characters
ImageJpeg == <<"i","m","a","g","e","/","j","p","e","g">>
ImageJpg == <<"i","m","a","g","e","/","j","p","g">>
ImagePng == <<"i","m","a","g","e","/","p","n","g">>
ImageGif == <<"i","m","a","g","e","/","g","i","f">>
ImageWebp == <<"i","m","a","g","e","/","w","e","b","p">>
TextPlain == <<"t","e","x","t","/","p","l","a","i","n">>
TextXGift == <<"t","e","x","t","/","x","-","g","i","f","t">>
AppXPngs == <<"a","p","p","/","x","p","n","g","s">>

MimeTypes == {ImageJpeg, ImageJpg, ImagePng, ImageGif, ImageWebp, TextPlain,
              TextXGift, AppXPngs}

\* the alternatives of /jpeg|jpg|png|gif/
filetypes == {<<"j","p","e","g">>, <<"j","p","g">>, <<"p","n","g">>, <<"g","i","f">>}

\* pat occurs in s at some position (an unanchored regular expression)
Occurs(pat, s) ==
  \E i \in 1..Len(s) :
    /\ i + Len(pat) - 1 <= Len(s)
    /\ SubSeq(s, i, i + Len(pat) - 1) = pat

\* filetypes.test(file.mimetype)
TestSubstring(mimetype) == \E pat \in filetypes : Occurs(pat, mimetype)

\* fileFilter: cb(null, true) when the test matches, cb(new Error(...)) otherwise
fileFilter(mimetype) == TestSubstring(mimetype)

NoFile == [present |-> FALSE, mimetype |-> <<>>, path |-> ""]
File(m) == [present |-> TRUE, mimetype |-> m, path |-> "uploads/f"]

\* req.file after upload.single(...): what the handler sees
ReqFile(f) == IF f.present /\ fileFilter(f.mimetype) THEN f ELSE NoFile

-----------------------------------------------------------------------------
(* bcrypt *)

Salts == {"s1", "s2"}

SaltRounds == 10

\* bcrypt.hash(password, 10) for a string password and a generated salt
BcryptHash(p, salt) ==
  [type |-> "string", val |-> "$2b$", rounds |-> SaltRounds, salt |-> salt,
   digest |-> p.val]

\* bcrypt.hash and bcrypt.compare reject data that is no string
BcryptAccepts(p) == p.type = "string"

\* bcrypt.compare(password, hash), for data the library accepts
BcryptCompare(p, h) ==
  /\ DOMAIN h = {"type", "val", "rounds", "salt", "digest"}
  /\ h = BcryptHash(p, h.salt)

-----------------------------------------------------------------------------
(* Express: the application's stack in registration order *)

AppStack == <<
  [name |-> "cors", arity |-> 3],
  [name |-> "bodyParser.json", arity |-> 3],
  [name |-> "errorHandler", arity |-> 4],
  [name |-> "routes", arity |-> 3] >>

LayerOf(name) == CHOOSE i \in DOMAIN AppStack : AppStack[i].name = name

Response(status, ctype, error, message, payload) ==
  [status |-> status, ctype |-> ctype, error |-> error, message |-> message,
   payload |-> payload]

JsonError(status, error) == Response(status, "json", error, "", <<>>)
JsonMessage(status, message, payload) == Response(status, "json", "", message, payload)

\* the application's error-handling middleware
errorHandler == JsonError(500, "Something went wrong!")

\* the framework's own final handler: an HTML page, status from the error
FinalHandler(errStatus) ==
  Response(IF errStatus >= 400 /\ errStatus < 600 THEN errStatus ELSE 500,
           "html", "", "", <<>>)

\* next(err) called in layer `from`: the first error-handling layer registered
\* after it answers, and the final handler when there is none
NextErr(from, errStatus) ==
  IF \E j \in DOMAIN AppStack : j > from /\ AppStack[j].arity = 4
  THEN errorHandler
  ELSE FinalHandler(errStatus)

-----------------------------------------------------------------------------
(* MySQL: the statements of the handlers *)

UsersColumns == <<"name", "email", "password", "user_type", "profile_picture">>
UsersPlaceholders == 5

InstitutionsColumns == <<"name", "number_of_students", "number_of_departments",
                         "number_of_courses", "logo">>
InstitutionsPlaceholders == 5

FacultiesColumns == <<"name", "institution_id">>
FacultiesPlaceholders == 2

CoursesColumns == <<"name", "faculty_id", "institution_id">>
CoursesPlaceholders == 3

ApplicationsColumns == <<
  "student_name", "phone_number", "student_id", "university", "course_id",
  "faculty", "major_subject",
  "subject1", "grade1", "subject2", "grade2", "subject3", "grade3",
  "subject4", "grade4", "subject5", "grade5", "subject6", "grade6",
  "subject7", "grade7", "subject8", "grade8" >>
ApplicationsPlaceholders == 20

\* the server accepts INSERT INTO t (columns) VALUES (?, ..) when the VALUES
\* list has one value per column; the client binds params to the ? in order
ValuesMatch(columns, nPlaceholders, params) ==
  /\ nPlaceholders = Len(columns)
  /\ Len(params) >= nPlaceholders

\* the row the statement inserts: the i-th column gets the i-th bound value
InsertedRow(columns, params, id) ==
  [c \in Range(columns) \cup {"id"} |->
     IF c = "id" THEN id ELSE params[IndexOf(columns, c)]]

Ids(table) == {table[i].id : i \in DOMAIN table}

\* rows of a table that satisfy WHERE id = ?
RowIndexesWithId(table, id) == {i \in DOMAIN table : table[i].id = id}

\* a SELECT whose WHERE clause is lost
UsersAnyEmail(email) == DOMAIN users

\* rows of users that satisfy WHERE email = ?
UsersWithEmail(email) == {i \in DOMAIN users : users[i].email = email}

\* SELECT c.id, c.name, i.name AS university, '...' AS requirements
\* FROM courses c JOIN institutions i ON c.institution_id = i.id
CoursesJoin ==
  LET pairs == {<<c, i>> \in (DOMAIN courses) \X (DOMAIN institutions) :
                  ToInt(courses[c].institution_id) = institutions[i].id}
      RECURSIVE Rows(_)
      Rows(cs) ==
        IF cs = <<>> THEN <<>>
        ELSE LET c == Head(cs)
                 mine == {q \in pairs : q[1] = c}
             IN (IF mine = {} THEN <<>>
                 ELSE LET q == CHOOSE q \in mine : TRUE
                      IN << [id |-> courses[c].id, name |-> courses[c].name,
                             university |-> institutions[q[2]].name,
                             requirements |->
                               "High School Diploma, Pass in relevant subjects"] >>)
                \o Rows(Tail(cs))
  IN Rows([k \in 1..Len(courses) |-> k])

\* SELECT id, name, number_of_students, ... , logo FROM institutions
UniversityRows == institutions

\* SELECT id, name, institution_id FROM faculties
FacultyRows == faculties

-----------------------------------------------------------------------------
(* Requests the clients send *)

Emails == {"a@x", "b@x"}
Passwords == {"p1", "p2"}

Missing == {Undefined, Str("")}

RegisterFields == {"name", "email", "password", "user_type"}
GoodRegister(e, p) ==
  [name |-> Str("Ann"), email |-> Str(e), password |-> Str(p),
   user_type |-> Str("student")]
RegisterBodies ==
  {GoodRegister(e, p) : e \in Emails, p \in Passwords}
  \cup {[GoodRegister("a@x", "p1") EXCEPT ![f] = v] : f \in RegisterFields, v \in Missing}
  \cup {[GoodRegister("a@x", "p1") EXCEPT !.password = Arr("p1")]}
  \cup {[f \in RegisterFields |-> Undefined]}
RegisterInputs ==
  {[body |-> b, file |-> File(ImagePng)] : b \in RegisterBodies}
  \cup {[body |-> GoodRegister("a@x", "p1"), file |-> f] :
          f \in {NoFile} \cup {File(m) : m \in MimeTypes}}
  \cup {[body |-> [k \in RegisterFields |-> Undefined], file |-> f] :
          f \in {NoFile, File(TextPlain)}}

LoginFields == {"email", "password"}
GoodLogin(e, p) == [email |-> Str(e), password |-> Str(p)]
LoginBodies ==
  {GoodLogin(e, p) : e \in Emails, p \in Passwords}
  \cup {[GoodLogin("a@x", "p1") EXCEPT ![f] = v] : f \in LoginFields, v \in Missing}
  \cup {[GoodLogin(e, "p1") EXCEPT !.password = Num("7")] : e \in Emails}
LoginInputs == {[body |-> b, file |-> NoFile] : b \in LoginBodies}

InstitutionFields == {"name", "number_of_students", "number_of_departments",
                      "number_of_courses"}
GoodInstitution ==
  [name |-> Str("Uni"), number_of_students |-> Str("9"),
   number_of_departments |-> Str("3"), number_of_courses |-> Str("5")]
InstitutionBodies ==
  {GoodInstitution}
  \cup {[GoodInstitution EXCEPT ![f] = v] : f \in InstitutionFields, v \in Missing}
InstitutionInputs ==
  {[body |-> b, file |-> File(ImageGif)] : b \in InstitutionBodies}
  \cup {[body |-> GoodInstitution, file |-> f] :
          f \in {NoFile, File(TextPlain), File(TextXGift)}}

FacultyFields == {"name", "institution_id"}
GoodFaculty(i) == [name |-> Str("Science"), institution_id |-> Num(i)]
FacultyBodies ==
  {GoodFaculty("1")}
  \cup {[GoodFaculty("1") EXCEPT ![f] = v] : f \in FacultyFields, v \in Missing}
  \cup {GoodFaculty("0")}
FacultyInputs == {[body |-> b, file |-> NoFile] : b \in FacultyBodies}

CourseFields == {"name", "faculty", "institution"}
GoodCourse(i) == [name |-> Str("Physics"), faculty |-> Num("1"), institution |-> Num(i)]
CourseBodies ==
  {GoodCourse("1"), GoodCourse("2")}
  \cup {[GoodCourse("1") EXCEPT ![f] = v] : f \in CourseFields, v \in Missing}
CourseInputs == {[body |-> b, file |-> NoFile] : b \in CourseBodies}

\* the entries of a grades array, and the arrays of up to MaxGrades entries
GradeEntries == {[subject |-> Str("Math"), grade |-> Str("A")],
                 [subject |-> Str("Eng"), grade |-> Str("B")]}
GradeLists == UNION {[1..n -> GradeEntries] : n \in 0..MaxGrades}
GradesArray(items) == [type |-> "array", items |-> items]
GradesUndefined == [type |-> "undefined", items |-> <<>>]

ApplicationFields == {"studentName", "phoneNumber", "student_id", "university",
                      "course_id", "faculty", "majorSubject"}
GoodApplication(g) ==
  [studentName |-> Str("Bo"), phoneNumber |-> Str("555"), student_id |-> Str("1"),
   university |-> Str("Uni"), course_id |-> Str("1"), faculty |-> Str("Science"),
   majorSubject |-> Str("Math"), grades |-> g]
ApplicationBodies ==
  {GoodApplication(GradesArray(g)) : g \in GradeLists}
  \cup {[GoodApplication(GradesArray(<<>>)) EXCEPT ![f] = v] :
          f \in ApplicationFields, v \in Missing}
  \cup {GoodApplication(GradesUndefined)}
ApplicationInputs == {[body |-> b, file |-> NoFile] : b \in ApplicationBodies}

\* DELETE /institutions/:id carries the id in the path
DeleteInputs == {[body |-> [id |-> Str(i)], file |-> NoFile] : i \in {"1", "2"}}

NoBody == [none |-> Undefined]
NoInput == {[body |-> NoBody, file |-> NoFile]}

GetRoutes == {"GET /users", "GET /institutions", "GET /university", "GET /courses",
              "GET /faculties", "GET /"}
UploadRoutes == {"POST /register", "POST /institutions"}
JsonRoutes == {"POST /login", "POST /faculties", "POST /courses", "POST /applications"}
Routes == GetRoutes \cup UploadRoutes \cup JsonRoutes \cup {"DELETE /institutions/:id"}

Inputs(route) ==
  CASE route = "POST /register" -> RegisterInputs
    [] route = "POST /login" -> LoginInputs
    [] route = "POST /institutions" -> InstitutionInputs
    [] route = "POST /faculties" -> FacultyInputs
    [] route = "POST /courses" -> CourseInputs
    [] route = "POST /applications" -> ApplicationInputs
    [] route = "DELETE /institutions/:id" -> DeleteInputs
    [] OTHER -> NoInput

-----------------------------------------------------------------------------
(* The state of a request *)

IdleReq ==
  [rid |-> 0, route |-> "", malformed |-> FALSE, body |-> NoBody, file |-> NoFile,
   pc |-> "idle", res |-> <<>>, queries |-> 0, sqlError |-> "",
   matched |-> {}, usersAtArrival |-> 0, existedAtArrival |-> FALSE]

Init ==
  /\ users = <<>>
  /\ institutions = <<>>
  /\ instNextId = 1
  /\ faculties = <<>>
  /\ courses = <<>>
  /\ applications = <<>>
  /\ emailUnique \in BOOLEAN
  /\ asyncForward \in BOOLEAN
  /\ req = [s \in Slots |-> IdleReq]
  /\ nArrived = 0
  /\ deletedBy = {}

\* the routes of the institutions catalog
CatalogRoutes == {"POST /institutions", "DELETE /institutions/:id",
                  "GET /institutions", "GET /university"}

CatalogInputs(route) ==
  CASE route = "POST /institutions" ->
         {[body |-> GoodInstitution, file |-> f] :
            f \in {NoFile, File(ImageGif), File(TextPlain)}}
    [] route = "DELETE /institutions/:id" -> DeleteInputs
    [] OTHER -> NoInput

\* a client sends a request; a JSON route may receive a body that does not parse
ArriveOn(s, routes, catalog) ==
  /\ req[s].pc = "idle"
  /\ nArrived < MaxRequests
  /\ \E route \in routes : \E in \in (IF catalog THEN CatalogInputs(route) ELSE Inputs(route)) :
       \E bad \in (IF route = "POST /login" THEN BOOLEAN ELSE {FALSE}) :
         req' = [req EXCEPT ![s] =
                   [IdleReq EXCEPT !.rid = nArrived + 1, !.route = route,
                                   !.malformed = bad, !.body = in.body,
                                   !.file = in.file, !.pc = "received",
                                   !.usersAtArrival = Len(users),
                                   !.existedAtArrival =
                                      IF route = "DELETE /institutions/:id"
                                      THEN ToInt(in.body.id) \in Ids(institutions)
                                      ELSE FALSE]]
  /\ nArrived' = nArrived + 1
  /\ UNCHANGED <<tables, emailUnique, asyncForward, deletedBy>>

Arrive(s) == ArriveOn(s, Routes, FALSE)

ArriveCatalog(s) == ArriveOn(s, CatalogRoutes, TRUE)

\* the client has read the response and the connection is closed
Release(s) ==
  /\ req[s].pc = "done"
  /\ req' = [req EXCEPT ![s] = IdleReq]
  /\ UNCHANGED <<tables, emailUnique, asyncForward, nArrived, deletedBy>>

\* res.status(..).json(..) and return: the response is sent, the handler ends
Send(r, response) == [r EXCEPT !.pc = "done", !.res = Append(@, response)]

\* a handler that runs a failed statement a second time
QueriedRetry(r, err) ==
  [r EXCEPT !.queries = @ + (IF err = "" THEN 1 ELSE 2), !.sqlError = err]

\* await query(sql, params): one statement is handed to the connection, and
\* err is the error it came back with ("" when it succeeded)
Queried(r, err) == [r EXCEPT !.queries = @ + 1, !.sqlError = err]

\* the connection is lost, or the server refuses the statement
ConnectionLost == "PROTOCOL_CONNECTION_LOST"
WrongValueCount == "ER_WRONG_VALUE_COUNT_ON_ROW"
DupEntry == "ER_DUP_ENTRY"

\* the error of INSERT INTO t (columns) VALUES (?, ..) with params bound
InsertError(fails, columns, nPlaceholders, params, duplicate) ==
  IF fails THEN ConnectionLost
  ELSE IF ~ValuesMatch(columns, nPlaceholders, params) THEN WrongValueCount
  ELSE IF duplicate THEN DupEntry
  ELSE ""

\* the handler's promise settles although no response was sent
Ended(r) == [r EXCEPT !.pc = "done"]

At(s, pc, route) ==
  /\ req[s].pc = pc
  /\ req[s].route = route
  /\ ~req[s].malformed

-----------------------------------------------------------------------------
(* Middleware *)

\* bodyParser.json() cannot parse the body and calls next(err), err.status 400
BodyParserError(s) ==
  /\ req[s].pc = "received"
  /\ req[s].malformed
  /\ req' = [req EXCEPT ![s] = Send(@, NextErr(LayerOf("bodyParser.json"), 400))]
  /\ UNCHANGED <<tables, emailUnique, asyncForward, nArrived, deletedBy>>

Rejected(f) == f.present /\ ~fileFilter(f.mimetype)

\* upload.single(..): the filter refuses the file and multer calls next(err)
UploadRejected(s) ==
  /\ req[s].pc = "received"
  /\ req[s].route \in UploadRoutes
  /\ Rejected(req[s].file)
  /\ req' = [req EXCEPT ![s] = Send(@, NextErr(LayerOf("routes"), 0))]
  /\ UNCHANGED <<tables, emailUnique, asyncForward, nArrived, deletedBy>>

-----------------------------------------------------------------------------
(* POST /register *)

RegisterInvalid(b, f) ==
  \/ Falsy(b.name) \/ Falsy(b.email) \/ Falsy(b.password) \/ Falsy(b.user_type)
  \/ ~f.present

\* binding the submitted password itself
RegisterPasswordPlain(password, hashedPassword) == password

\* the value bound to the password column
RegisterPasswordParam(password, hashedPassword) == hashedPassword

RegisterParams(b, f, hashedPassword) ==
  <<b.name, b.email, RegisterPasswordParam(b.password, hashedPassword),
    b.user_type, Str(f.path)>>

PostRegister(s) ==
  /\ At(s, "received", "POST /register")
  /\ ~Rejected(req[s].file)
  /\ LET b == req[s].body
         f == ReqFile(req[s].file)
     IN IF RegisterInvalid(b, f)
        THEN /\ req' = [req EXCEPT ![s] = Send(@, JsonError(400,
                 "Please provide name, email, password, user_type, and a profile picture."))]
             /\ UNCHANGED users
        ELSE IF ~BcryptAccepts(b.password)
        THEN \* bcrypt.hash rejects outside the try block
             /\ req' = [req EXCEPT ![s] =
                          IF asyncForward THEN Send(@, NextErr(LayerOf("routes"), 0))
                          ELSE Ended(@)]
             /\ UNCHANGED users
        ELSE \E salt \in Salts, fails \in BOOLEAN :
               LET params == RegisterParams(b, f, BcryptHash(b.password, salt))
                   err == InsertError(fails, UsersColumns, UsersPlaceholders, params,
                                      emailUnique /\ UsersWithEmail(b.email) # {})
               IN IF err = ""
                  THEN /\ users' = Append(users,
                                     InsertedRow(UsersColumns, params, Len(users) + 1))
                       /\ req' = [req EXCEPT ![s] = Send(Queried(@, ""),
                                    JsonMessage(201, "User registered successfully.", <<>>))]
                  ELSE /\ UNCHANGED users
                       /\ req' = [req EXCEPT ![s] = Send(Queried(@, err),
                                    JsonError(500, "Database error during registration."))]
  /\ UNCHANGED <<institutions, instNextId, faculties, courses, applications,
                 emailUnique, asyncForward, nArrived, deletedBy>>

-----------------------------------------------------------------------------
(* POST /login *)

LoginInvalid(b) == Falsy(b.email) \/ Falsy(b.password)

\* a message that tells a wrong password from an unknown email
WrongPasswordDistinct == JsonError(401, "Wrong password.")

UnknownEmailResponse == JsonError(401, "Invalid email or password.")
WrongPasswordResponse == JsonError(401, "Invalid email or password.")

\* data[0]: rows come back in primary-key order
FirstRow(data) == CHOOSE i \in data : \A j \in data : i <= j

LoginUser(user) ==
  [id |-> user.id, user_type |-> user.user_type, name |-> user.name,
   email |-> user.email, profile_picture |-> user.profile_picture]

PostLogin(s) ==
  /\ At(s, "received", "POST /login")
  /\ LET b == req[s].body
     IN IF LoginInvalid(b)
        THEN req' = [req EXCEPT ![s] = Send(@, JsonError(400,
                       "Please provide both email and password."))]
        ELSE \E fails \in BOOLEAN :
               LET data == UsersWithEmail(b.email)
                   r == [Queried(req[s], IF fails THEN ConnectionLost ELSE "") EXCEPT
                           !.matched = IF fails THEN {} ELSE {users[i].id : i \in data}]
               IN req' = [req EXCEPT ![s] =
                    IF fails THEN Send(r, JsonError(500, "Database query error."))
                    ELSE IF data # {}
                    THEN LET user == users[FirstRow(data)]
                         IN IF ~BcryptAccepts(b.password)
                            THEN \* bcrypt.compare rejects inside the try block
                                 Send(r, JsonError(500, "Database query error."))
                            ELSE IF BcryptCompare(b.password, user.password)
                            THEN Send(r, JsonMessage(200, "Login successful",
                                                     <<LoginUser(user)>>))
                            ELSE Send(r, WrongPasswordResponse)
                    ELSE Send(r, UnknownEmailResponse)]
  /\ UNCHANGED <<tables, emailUnique, asyncForward, nArrived, deletedBy>>

-----------------------------------------------------------------------------
(* POST /institutions *)

InstitutionInvalid(b, f) ==
  \/ Falsy(b.name) \/ Falsy(b.number_of_students)
  \/ Falsy(b.number_of_departments) \/ Falsy(b.number_of_courses)
  \/ ~f.present

PostInstitutions(s) ==
  /\ At(s, "received", "POST /institutions")
  /\ ~Rejected(req[s].file)
  /\ LET b == req[s].body
         f == ReqFile(req[s].file)
     IN IF InstitutionInvalid(b, f)
        THEN /\ req' = [req EXCEPT ![s] = Send(@, JsonError(400,
                          "Please provide all required fields and a logo."))]
             /\ UNCHANGED <<institutions, instNextId>>
        ELSE \E fails \in BOOLEAN :
               LET params == <<b.name, b.number_of_students, b.number_of_departments,
                               b.number_of_courses, Str(f.path)>>
                   err == InsertError(fails, InstitutionsColumns,
                                      InstitutionsPlaceholders, params, FALSE)
                   row == InsertedRow(InstitutionsColumns, params, instNextId)
                   affectedRows == 1
               IN IF err = ""
                  THEN /\ institutions' = Append(institutions, row)
                       /\ instNextId' = instNextId + 1
                       /\ req' = [req EXCEPT ![s] =
                            IF affectedRows > 0
                            THEN Send(Queried(@, ""),
                                      JsonMessage(201, "Institution added successfully.",
                                                  <<row>>))
                            ELSE Send(Queried(@, ""),
                                      JsonError(500, "Failed to add institution."))]
                  ELSE /\ UNCHANGED <<institutions, instNextId>>
                       /\ req' = [req EXCEPT ![s] = Send(Queried(@, err),
                            JsonError(500, "Database error during adding institution."))]
  /\ UNCHANGED <<users, faculties, courses, applications,
                 emailUnique, asyncForward, nArrived, deletedBy>>

-----------------------------------------------------------------------------
(* POST /faculties, POST /courses *)

\* a presence check that forgets institution_id
FacultyInvalidNameOnly(b) == Falsy(b.name)

FacultyInvalid(b) == Falsy(b.name) \/ Falsy(b.institution_id)

PostFaculties(s) ==
  /\ At(s, "received", "POST /faculties")
  /\ LET b == req[s].body
     IN IF FacultyInvalid(b)
        THEN /\ req' = [req EXCEPT ![s] = Send(@, JsonError(400,
                          "Please provide both name and institution."))]
             /\ UNCHANGED faculties
        ELSE \E fails \in BOOLEAN :
               LET params == <<b.name, b.institution_id>>
                   err == InsertError(fails, FacultiesColumns,
                                      FacultiesPlaceholders, params, FALSE)
               IN IF err = ""
                  THEN /\ faculties' = Append(faculties,
                            InsertedRow(FacultiesColumns, params, Len(faculties) + 1))
                       /\ req' = [req EXCEPT ![s] = Send(Queried(@, ""),
                            JsonMessage(201, "Faculty added successfully.", <<>>))]
                  ELSE /\ UNCHANGED faculties
                       /\ req' = [req EXCEPT ![s] = Send(Queried(@, err),
                            JsonError(500, "Database error during adding faculty."))]
  /\ UNCHANGED <<users, institutions, instNextId, courses, applications,
                 emailUnique, asyncForward, nArrived, deletedBy>>

CourseInvalid(b) == Falsy(b.name) \/ Falsy(b.faculty) \/ Falsy(b.institution)

PostCourses(s) ==
  /\ At(s, "received", "POST /courses")
  /\ LET b == req[s].body
     IN IF CourseInvalid(b)
        THEN /\ req' = [req EXCEPT ![s] = Send(@, JsonError(400,
                          "Please provide name, faculty, and institution."))]
             /\ UNCHANGED courses
        ELSE \E fails \in BOOLEAN :
               LET params == <<b.name, b.faculty, b.institution>>
                   err == InsertError(fails, CoursesColumns,
                                      CoursesPlaceholders, params, FALSE)
               IN IF err = ""
                  THEN /\ courses' = Append(courses,
                            InsertedRow(CoursesColumns, params, Len(courses) + 1))
                       /\ req' = [req EXCEPT ![s] = Send(Queried(@, ""),
                            JsonMessage(201, "Course added successfully.", <<>>))]
                  ELSE /\ UNCHANGED courses
                       /\ req' = [req EXCEPT ![s] = Send(Queried(@, err),
                            JsonError(500, "Database error during adding course."))]
  /\ UNCHANGED <<users, institutions, instNextId, faculties, applications,
                 emailUnique, asyncForward, nArrived, deletedBy>>

-----------------------------------------------------------------------------
(* POST /applications *)

NumPairs == 8

ApplicationInvalid(b) ==
  \/ Falsy(b.studentName) \/ Falsy(b.phoneNumber) \/ Falsy(b.student_id)
  \/ Falsy(b.university) \/ Falsy(b.course_id) \/ Falsy(b.faculty)
  \/ Falsy(b.majorSubject) \/ b.grades.type = "undefined"

\* the loop over i = 0..7 that fills subjects and gradesValues
Subjects(grades) ==
  [i \in 1..NumPairs |->
     IF i <= Len(grades.items) THEN OrEmpty(grades.items[i].subject) ELSE Str("")]
GradesValues(grades) ==
  [i \in 1..NumPairs |->
     IF i <= Len(grades.items) THEN OrEmpty(grades.items[i].grade) ELSE Str("")]

\* params: the seven fields, then all subjects, then all grades
ApplicationParams(b) ==
  <<b.studentName, b.phoneNumber, b.student_id, b.university, b.course_id,
    b.faculty, b.majorSubject>>
  \o [i \in 1..NumPairs |-> OrEmpty(Subjects(b.grades)[i])]
  \o [i \in 1..NumPairs |-> OrEmpty(GradesValues(b.grades)[i])]

PostApplications(s) ==
  /\ At(s, "received", "POST /applications")
  /\ LET b == req[s].body
     IN IF ApplicationInvalid(b)
        THEN /\ req' = [req EXCEPT ![s] = Send(@, JsonError(400,
                          "All fields are required."))]
             /\ UNCHANGED applications
        ELSE \E fails \in BOOLEAN :
               LET params == ApplicationParams(b)
                   err == InsertError(fails, ApplicationsColumns,
                                      ApplicationsPlaceholders, params, FALSE)
                   insertId == Len(applications) + 1
               IN IF err = ""
                  THEN /\ applications' = Append(applications,
                            InsertedRow(ApplicationsColumns, params, insertId))
                       /\ req' = [req EXCEPT ![s] = Send(Queried(@, ""),
                            JsonMessage(201, "Application submitted successfully",
                                        <<[applicationId |-> insertId]>>))]
                  ELSE /\ UNCHANGED applications
                       /\ req' = [req EXCEPT ![s] = Send(Queried(@, err),
                            JsonError(500, "Database error during application submission."))]
  /\ UNCHANGED <<users, institutions, instNextId, faculties, courses,
                 emailUnique, asyncForward, nArrived, deletedBy>>

-----------------------------------------------------------------------------
(* DELETE /institutions/:id *)

\* a DELETE that always reports one affected row
DeleteAffectedAlways(table, id) == 1

\* result.affectedRows of DELETE FROM institutions WHERE id = ?
DeleteAffectedRows(table, id) == Cardinality(RowIndexesWithId(table, id))

DeleteInstitution(s) ==
  /\ At(s, "received", "DELETE /institutions/:id")
  /\ \E fails \in BOOLEAN :
       LET institutionId == ToInt(req[s].body.id)
           affectedRows == DeleteAffectedRows(institutions, institutionId)
       IN IF fails
          THEN /\ UNCHANGED <<institutions, deletedBy>>
               /\ req' = [req EXCEPT ![s] = Send(Queried(@, ConnectionLost),
                    JsonError(500, "Database error during deleting institution."))]
          ELSE /\ institutions' = SeqFilter(institutions,
                    {row \in Range(institutions) : row.id # institutionId})
               /\ deletedBy' = IF affectedRows > 0
                               THEN deletedBy \cup {[id |-> institutionId,
                                                     rid |-> req[s].rid]}
                               ELSE deletedBy
               /\ req' = [req EXCEPT ![s] =
                    IF affectedRows > 0
                    THEN Send(Queried(@, ""),
                              JsonMessage(200, "Institution deleted successfully.", <<>>))
                    ELSE Send(Queried(@, ""),
                              JsonError(404, "Institution not found."))]
  /\ UNCHANGED <<users, instNextId, faculties, courses, applications,
                 emailUnique, asyncForward, nArrived>>

-----------------------------------------------------------------------------
(* The GET routes *)

\* a handler that runs one SELECT and answers with its rows
GetRows(s, route, rows, message) ==
  /\ At(s, "received", route)
  /\ \E fails \in BOOLEAN :
       req' = [req EXCEPT ![s] =
                 IF fails THEN Send(Queried(@, ConnectionLost), JsonError(500, message))
                 ELSE Send(Queried(@, ""), JsonMessage(200, "", rows))]
  /\ UNCHANGED <<tables, emailUnique, asyncForward, nArrived, deletedBy>>

GetUsers(s) ==
  GetRows(s, "GET /users", users, "Database error while fetching users.")

GetInstitutions(s) ==
  GetRows(s, "GET /institutions", institutions,
          "Database error while fetching institutions.")

GetUniversity(s) ==
  GetRows(s, "GET /university", UniversityRows,
          "Database error while fetching universities.")

GetCourses(s) ==
  GetRows(s, "GET /courses", CoursesJoin, "Database error while fetching courses.")

GetFaculties(s) ==
  GetRows(s, "GET /faculties", FacultyRows,
          "Database error while fetching faculties.")

\* GET /: no statement
GetRoot(s) ==
  /\ At(s, "received", "GET /")
  /\ req' = [req EXCEPT ![s] = Send(@, JsonMessage(200, "Server is running.", <<>>))]
  /\ UNCHANGED <<tables, emailUnique, asyncForward, nArrived, deletedBy>>

-----------------------------------------------------------------------------
(* The server *)

\* one request at a time, on every route
Next ==
  \E s \in {1} :
    \/ Arrive(s)
    \/ Release(s)
    \/ BodyParserError(s)
    \/ UploadRejected(s)
    \/ PostRegister(s)
    \/ PostLogin(s)
    \/ PostInstitutions(s)
    \/ PostFaculties(s)
    \/ PostCourses(s)
    \/ PostApplications(s)
    \/ DeleteInstitution(s)
    \/ GetUsers(s)
    \/ GetInstitutions(s)
    \/ GetUniversity(s)
    \/ GetCourses(s)
    \/ GetFaculties(s)
    \/ GetRoot(s)

Spec == Init /\ [][Next]_vars

\* concurrent requests on the institutions catalog
NextCatalog ==
  \E s \in Slots :
    \/ ArriveCatalog(s)
    \/ Release(s)
    \/ UploadRejected(s)
    \/ PostInstitutions(s)
    \/ DeleteInstitution(s)
    \/ GetInstitutions(s)
    \/ GetUniversity(s)

InitCatalog == Init /\ ~emailUnique /\ ~asyncForward

SpecCatalog == InitCatalog /\ [][NextCatalog]_vars

-----------------------------------------------------------------------------
(* Properties *)

Done(s) == req[s].pc = "done"
Answered(s) == Done(s) /\ Len(req[s].res) = 1
Status(s) == req[s].res[1].status

\* slot s handles its request in this step
Handles(s) == req[s].pc = "received" /\ req'[s].pc = "done"

PostRoutes == UploadRoutes \cup JsonRoutes

RequiredFields(route) ==
  CASE route = "POST /register" -> RegisterFields
    [] route = "POST /login" -> LoginFields
    [] route = "POST /institutions" -> InstitutionFields
    [] route = "POST /faculties" -> FacultyFields
    [] route = "POST /courses" -> CourseFields
    [] route = "POST /applications" -> ApplicationFields
    [] OTHER -> {}

\* a scalar field that is missing or the empty string
Absent(v) == v = Undefined \/ v = Str("")

\* a required scalar field is absent, the upload is missing, or grades is missing
LacksField(r) ==
  \/ \E f \in RequiredFields(r.route) : Absent(r.body[f])
  \/ r.route \in UploadRoutes /\ ~r.file.present
  \/ r.route = "POST /applications" /\ r.body.grades.type = "undefined"

\* the same, counting an empty grades array as an empty field
LacksFieldOrEmpty(r) ==
  \/ LacksField(r)
  \/ r.route = "POST /applications" /\ r.body.grades.items = <<>>

\* C1, as stated: on the six POST routes a request with a missing or empty
\* required field (or a missing upload) is answered 400 and runs no statement.
C1_AsStated ==
  \A s \in Slots :
    (Done(s) /\ req[s].route \in PostRoutes /\ ~req[s].malformed
       /\ LacksFieldOrEmpty(req[s]))
    => (Answered(s) /\ Status(s) = 400 /\ req[s].queries = 0)

C1_Covered(r) ==
  /\ r.route \in PostRoutes
  /\ ~r.malformed
  /\ ~Rejected(r.file)
  /\ LacksField(r)

\* C1, amended: on the six POST routes a request whose body parses, whose
\* upload (if any) passes the filter, and in which a required scalar field is
\* missing or the empty string, the upload is missing, or grades is missing, is
\* answered 400, runs no statement, and leaves every table as it was.
C1_MissingFieldRejected ==
  /\ [](\A s \in Slots :
          (Done(s) /\ C1_Covered(req[s]))
          => (Answered(s) /\ Status(s) = 400 /\ req[s].queries = 0))
  /\ [][\A s \in Slots :
          (Handles(s) /\ C1_Covered(req[s])) => tables' = tables]_vars

C1_Witness ==
  \E s \in Slots :
    /\ Answered(s) /\ Status(s) = 400
    /\ req[s].route = "POST /faculties"
    /\ req[s].body.institution_id = Undefined
    /\ nArrived > 1 /\ institutions # <<>>

InvalidLogin == JsonError(401, "Invalid email or password.")

\* the login found no users row for the email
UnknownEmail(r) == r.matched = {}

\* the login found a row and the password does not match its hash
WrongPassword(r) ==
  /\ r.matched # {}
  /\ BcryptAccepts(r.body.password)
  /\ \E i \in DOMAIN users :
       /\ users[i].id \in r.matched
       /\ \A j \in DOMAIN users : users[j].id \in r.matched => i <= j
       /\ ~BcryptCompare(r.body.password, users[i].password)

C2_Covered(r) ==
  /\ r.route = "POST /login" /\ ~r.malformed
  /\ ~Absent(r.body.email) /\ ~Absent(r.body.password)
  /\ r.sqlError = ""

SubjectOf(g, k) == IF k <= Len(g.items) THEN g.items[k].subject ELSE Str("")
GradeOf(g, k) == IF k <= Len(g.items) THEN g.items[k].grade ELSE Str("")

SubjectColumn(k) == ApplicationsColumns[7 + 2 * k - 1]
GradeColumn(k) == ApplicationsColumns[7 + 2 * k]

\* C3: an application with every required field and a grades list of at most
\* eight entries, whose statement the database does not lose, is answered 201
\* and its row holds the k-th subject in subject_k and the k-th grade in
\* grade_k, and "" in both past the end of the list.
C3_GradesMapped ==
  \A s \in Slots :
    (Done(s) /\ req[s].route = "POST /applications" /\ ~req[s].malformed
       /\ ~LacksField(req[s]) /\ Len(req[s].body.grades.items) <= NumPairs
       /\ req[s].sqlError # ConnectionLost)
    => /\ Answered(s) /\ Status(s) = 201
       /\ \E i \in DOMAIN applications :
            /\ applications[i].id = req[s].res[1].payload[1].applicationId
            /\ \A k \in 1..NumPairs :
                 /\ applications[i][SubjectColumn(k)] = SubjectOf(req[s].body.grades, k)
                 /\ applications[i][GradeColumn(k)] = GradeOf(req[s].body.grades, k)

\* a password column that holds some bcrypt hash of some submitted password
IsHashOfSubmitted(h) ==
  \E p \in Passwords, salt \in Salts : h = BcryptHash(Str(p), salt)

\* C4: every users row holds a bcrypt hash in its password column, and the row
\* a registration answered 201 has just inserted holds the hash of the password
\* that request submitted, never the submitted password itself.
C4_PasswordStoredHashed ==
  /\ \A i \in DOMAIN users :
       /\ IsHashOfSubmitted(users[i].password)
       /\ \A p \in Passwords : users[i].password # Str(p)
  /\ \A s \in Slots :
       (Answered(s) /\ req[s].route = "POST /register" /\ Status(s) = 201)
       => /\ users # <<>>
          /\ users[Len(users)].email = req[s].body.email
          /\ BcryptCompare(req[s].body.password, users[Len(users)].password)
          /\ users[Len(users)].password # req[s].body.password

C4_Witness ==
  \E s \in Slots :
    /\ Answered(s) /\ req[s].route = "POST /register" /\ Status(s) = 201
    /\ Len(users) = 2
    /\ users[1].password # users[2].password

\* the error message each route answers a failed statement with
DbErrorOf(route) ==
  CASE route = "GET /users" -> "Database error while fetching users."
    [] route = "GET /institutions" -> "Database error while fetching institutions."
    [] route = "POST /register" -> "Database error during registration."
    [] route = "POST /login" -> "Database query error."
    [] route = "POST /institutions" -> "Database error during adding institution."
    [] route = "GET /university" -> "Database error while fetching universities."
    [] route = "POST /faculties" -> "Database error during adding faculty."
    [] route = "POST /courses" -> "Database error during adding course."
    [] route = "GET /courses" -> "Database error while fetching courses."
    [] route = "GET /faculties" -> "Database error while fetching faculties."
    [] route = "DELETE /institutions/:id" -> "Database error during deleting institution."
    [] route = "POST /applications" -> "Database error during application submission."
    [] OTHER -> "-"

\* C5: a request whose statement failed has exactly one response, status 500
\* with the JSON error message fixed for its route and nothing else in it, and
\* the statement was attempted exactly once.
C5_FailedStatementIs500 ==
  \A s \in Slots :
    (Done(s) /\ req[s].sqlError # "")
    => /\ req[s].res = <<JsonError(500, DbErrorOf(req[s].route))>>
       /\ req[s].queries = 1

C5_Witness ==
  \E s \in Slots :
    /\ Done(s) /\ req[s].sqlError = DupEntry
    /\ req[s].res = <<JsonError(500, "Database error during registration.")>>

AllowedImageTypes == {ImageJpeg, ImageJpg, ImagePng, ImageGif}

\* the upload reached the handler (the handler answers in JSON; a refused
\* upload is answered by the framework)
UploadAccepted(r) == r.res # <<>> /\ r.res[1].ctype = "json"

\* C6: an upload on POST /register or POST /institutions is accepted exactly
\* when its MIME type is image/jpeg, image/jpg, image/png or image/gif, and a
\* request whose upload is refused inserts no row.
C6_OnlyImageTypesAccepted ==
  \A s \in Slots :
    (Done(s) /\ req[s].route \in UploadRoutes /\ req[s].file.present
       /\ \A f \in RequiredFields(req[s].route) : req[s].body[f].type = "string")
    => /\ UploadAccepted(req[s]) <=> req[s].file.mimetype \in AllowedImageTypes
       /\ ~UploadAccepted(req[s]) => req[s].queries = 0

\* C7: an error passed to the framework while a route is handled (the upload
\* filter refusing a file) is answered by the error-handling middleware:
\* status 500 with the JSON body {error: "Something went wrong!"}.
C7_RouteErrorsReachErrorHandler ==
  \A s \in Slots :
    (Done(s) /\ req[s].route \in UploadRoutes /\ Rejected(req[s].file))
    => req[s].res = <<JsonError(500, "Something went wrong!")>>

\* C8: every handler path ends with exactly one response sent.
C8_ExactlyOneResponse ==
  \A s \in Slots : Done(s) => Len(req[s].res) = 1

\* the rows a login could have seen registered (answered 201) before it arrived
RegisteredBefore(r) ==
  {i \in 1..r.usersAtArrival :
     /\ users[i].email = r.body.email
     /\ BcryptAccepts(r.body.password)
     /\ BcryptCompare(r.body.password, users[i].password)}

C9_Covered(r) ==
  /\ r.route = "POST /login" /\ ~r.malformed
  /\ r.sqlError = ""

LoggedInAs(r, id) ==
  /\ Len(r.res) = 1
  /\ r.res[1].status = 200
  /\ r.res[1].payload[1].id = id

\* C9, as stated: after a registration answered 201 for an email and password,
\* a later login with that email and password (whose statement succeeds) is
\* answered 200 with that user's id, whatever was registered before or between.
C9_AsStated ==
  \A s \in Slots :
    (Done(s) /\ C9_Covered(req[s]))
    => \A i \in RegisteredBefore(req[s]) : LoggedInAs(req[s], users[i].id)

\* C9, amended: after a registration answered 201 for an email and password,
\* a later login with that email and password whose statement succeeds is
\* answered 200 with that user's id, provided no other users row has that email.
C9_LoginAfterRegister ==
  \A s \in Slots :
    (Done(s) /\ C9_Covered(req[s]))
    => \A i \in RegisteredBefore(req[s]) :
         (\A j \in DOMAIN users : users[j].email = req[s].body.email => j = i)
         => LoggedInAs(req[s], users[i].id)

C9_Witness ==
  \E s \in Slots :
    /\ Done(s) /\ C9_Covered(req[s])
    /\ \E i \in RegisteredBefore(req[s]) :
         /\ LoggedInAs(req[s], users[i].id)
         /\ i = 2
         /\ users[1].email # users[2].email

DeleteRoute == "DELETE /institutions/:id"
ListRoutes == {"GET /institutions", "GET /university"}

\* slot s runs its DELETE in this step and the statement succeeds
Deletes(s) ==
  /\ Handles(s)
  /\ req[s].route = DeleteRoute
  /\ req'[s].sqlError = ""

\* slot s runs its SELECT on institutions in this step and it succeeds
Lists(s) ==
  /\ Handles(s)
  /\ req[s].route \in ListRoutes
  /\ req'[s].sqlError = ""

DeletedIds == {d.id : d \in deletedBy}

\* two answered DELETEs of one id that was there when each of them arrived
SameRowDeletes(s, t) ==
  /\ s # t
  /\ Done(s) /\ req[s].route = DeleteRoute /\ req[s].sqlError = ""
  /\ Done(t) /\ req[t].route = DeleteRoute /\ req[t].sqlError = ""
  /\ req[s].body.id = req[t].body.id
  /\ req[s].existedAtArrival /\ req[t].existedAtArrival

\* C10: a DELETE whose statement succeeds answers 200 exactly when a row with
\* the id existed when the statement ran, and the row is gone from then on (no
\* later GET /institutions or GET /university returns it); it answers 404 and
\* leaves the table as it was otherwise.  Of two concurrent DELETEs of one
\* existing id, at most one is answered 200, and when no third request removed
\* the row exactly one is answered 200 and the other 404.
C10_DeleteOnce ==
  /\ [][\A s \in Slots :
          Deletes(s) =>
            LET id == ToInt(req[s].body.id)
                status == req'[s].res[1].status
            IN /\ Len(req'[s].res) = 1
               /\ status \in {200, 404}
               /\ status = 200 <=> id \in Ids(institutions)
               /\ id \notin Ids(institutions')
               /\ status = 404 => institutions' = institutions
               /\ status = 200 => [id |-> id, rid |-> req[s].rid] \in deletedBy']_vars
  /\ [][\A s \in Slots :
          Lists(s) =>
            /\ req'[s].res[1].status = 200
            /\ Ids(req'[s].res[1].payload) = Ids(institutions)
            /\ Ids(req'[s].res[1].payload) \cap DeletedIds = {}]_vars
  /\ [](Ids(institutions) \cap DeletedIds = {})
  /\ [](\A s, t \in Slots :
          SameRowDeletes(s, t) =>
            LET mine == {d \in deletedBy : d.id = ToInt(req[s].body.id)}
            IN /\ ~(Status(s) = 200 /\ Status(t) = 200)
               /\ Cardinality(mine) = 1
               /\ \A d \in mine :
                    /\ d.rid = req[s].rid => (Status(s) = 200 /\ Status(t) = 404)
                    /\ d.rid = req[t].rid => (Status(t) = 200 /\ Status(s) = 404)
                    /\ d.rid \notin {req[s].rid, req[t].rid}
                         => (Status(s) = 404 /\ Status(t) = 404))

C10_Witness ==
  \E s, t \in Slots :
    /\ SameRowDeletes(s, t)
    /\ Status(s) = 200 /\ Status(t) = 404

====
